---- MODULE Spec2Model ----
(***************************************************************************)
(* A model of the local state engine of holochain-rust:                    *)
(*   - the hash-linked, content-addressed source chain (chain/mod.rs),      *)
(*   - the agent reducers over that chain (agent/state.rs),                 *)
(*   - the capability-gated call bridge (nucleus/ribosome/api/call.rs).     *)
(* Hashing is modelled as an injective function of the serialized value:    *)
(* a hash is the pair <<"Qm", serialized>>.  Option values are sequences    *)
(* of length 0 (None) or 1 (Some), Results are <<"Ok", v>> / <<"Err", e>>.   *)
(***************************************************************************)
EXTENDS Integers, Sequences, FiniteSets, TLC

VARIABLES
    chain_actors,   \* chain actor id -> Option<Pair>: the top pair it holds
    table_actors,   \* table actor id -> set of Entry: the content-addressed store
    held,           \* Option<Pair>: a pair made by create_next_pair, not yet committed
    last,           \* <<operation, argument, returned value>> of the last chain call
    history         \* log of successful commits: <<pair, top key before the commit>>

chain_vars == <<chain_actors, table_actors, held, last, history>>

VARIABLES
    nucleus,            \* NucleusState: [dna, zome_calls]
    action_channel,     \* the ActionWrappers sent to the instance, oldest first
    observer_channel,   \* the Observers sent to the instance and not yet taken in
    state_observers,    \* the Observers the instance loop holds, in registration order
    running,            \* the zome function calls handed to the executor and not finished
    instance_pc,        \* "running", or "panicked" once the instance loop has died
    next_id,            \* the next ActionWrapper id
    caller_pc,          \* per runtime: "idle", "dispatching", "blocked" or "panicked"
    last_invoke,        \* <<runtime, argument string>> of the latest invoke_call
    caller_action,      \* per runtime: Option<ActionWrapper>, the Call it is waiting for
    caller_ret,         \* per runtime: Option of the value invoke_call returned last
    receiver,           \* per runtime: Option of the value sent on its channel
    invokes             \* how many times invoke_call has been entered

call_vars == <<nucleus, action_channel, observer_channel, state_observers, running,
               instance_pc, next_id, caller_pc, last_invoke, caller_action, caller_ret,
               receiver, invokes>>

VARIABLES
    agent_heap,     \* Arc pointer -> AgentState: the snapshots that are still held
    agent_state,    \* the Arc pointer of the current agent state
    agent_pc        \* "running", or "panicked" once a reducer has aborted

agent_vars == <<agent_heap, agent_state, agent_pc>>

VARIABLES
    committers      \* per thread that commits through a clone: how far its commit_entry is

commit_vars == <<committers>>

vars == <<chain_vars, call_vars, agent_vars, commit_vars>>

(***************************************************************************)
(* Bounds of the model.                                                    *)
(***************************************************************************)
MaxPairs == 3

MaxInvokes == 2

MaxReduces == 3

(***************************************************************************)
(* Option and Result.                                                      *)
(***************************************************************************)
None == <<>>

Some(x) == <<x>>

Unwrap(o) == o[1]

Ok(v) == <<"Ok", v>>

Err(e) == <<"Err", e>>

IsOk(r) == r[1] = "Ok"

IsErr(r) == r[1] = "Err"

(***************************************************************************)
(* Entries, headers and pairs.                                             *)
(***************************************************************************)
test_type_a == "testEntryType"

test_type_b == "testEntryTypeB"

EntryNew(entry_type, content) == [entry_type |-> entry_type, content |-> <<content>>]

test_entry_a == EntryNew(test_type_a, "test entry content")

test_entry_b == EntryNew(test_type_b, "other test entry content")

Entries == {test_entry_a, test_entry_b}

EntryTypes == {test_type_a, test_type_b}

\* the multihash of a serialized value
Hash(serialized) == <<"Qm", serialized>>

\* {"content": ..., "entry_type": ...}
EntryToJson(e) == <<e.content, e.entry_type>>

EntryHash(e) == Hash(EntryToJson(e))

EntryKey(e) == EntryHash(e)

\* the key "" that no entry has
EmptyKey == <<"">>

HeaderNew(entry_type, timestamp, link, entry_hash, entry_signature, link_same_type) ==
    [entry_type |-> entry_type, timestamp |-> timestamp, link |-> link,
     entry_hash |-> entry_hash, entry_signature |-> entry_signature,
     link_same_type |-> link_same_type]

\* {"entry_type","timestamp","link","entry_hash","entry_signature","link_same_type"}
HeaderToJson(h) ==
    <<h.entry_type, h.timestamp, h.link, h.entry_hash, h.entry_signature, h.link_same_type>>

HeaderFromJson(s) == HeaderNew(s[1], s[2], s[3], s[4], s[5], s[6])

\* the header stored in the table as an entry of type "header"
HeaderToEntry(h) == [entry_type |-> "header", content |-> HeaderToJson(h)]

HeaderFromEntry(e) == HeaderFromJson(e.content)

\* the key under which the header entry is stored; header.link holds this key
HeaderKey(h) == EntryKey(HeaderToEntry(h))

\* header.hash(): the digest of the serialized header alone, another value
\* than the key of the header entry; header.link_same_type holds this one
HeaderHash(h) == Hash(<<HeaderToJson(h)>>)

PairNew(header, entry) == [header |-> header, entry |-> entry]

PairKey(p) == HeaderKey(p.header)

\* a pair is valid iff its header's entry_hash is the hash of its entry
PairValidate(p) == p.header.entry_hash = EntryHash(p.entry)

(***************************************************************************)
(* The table: a store keyed by content hash.                               *)
(***************************************************************************)
TablePut(table, e) == table \cup {e}

TableEntry(table, key) ==
    LET found == {e \in table : EntryKey(e) = key}
    IN  IF found = {} THEN None ELSE Some(CHOOSE e \in found : TRUE)

PairFromHeader(table, header) ==
    LET e == TableEntry(table, header.entry_hash)
    IN  IF e = None THEN None ELSE Some(PairNew(header, Unwrap(e)))

(***************************************************************************)
(* ChainIterator.                                                          *)
(***************************************************************************)
\* the header entry that next() asks the table for (None: no link to follow)
IterLinkedHeader(table, current) ==
    IF current = None \/ Unwrap(current).header.link = None
    THEN None
    ELSE TableEntry(table, Unwrap(Unwrap(current).header.link))

\* next() panics when the linked header is not in the table
IterNextPanics(table, current) ==
    /\ current # None
    /\ Unwrap(current).header.link # None
    /\ IterLinkedHeader(table, current) = None

\* a next() that follows the link of the linked pair as well
IterNextCurrent_skips_pair(table, current) ==
    LET he == IterLinkedHeader(table, current)
        linked == IF he = None THEN None ELSE PairFromHeader(table, HeaderFromEntry(Unwrap(he)))
        he2 == IterLinkedHeader(table, linked)
    IN  IF he2 = None THEN None ELSE PairFromHeader(table, HeaderFromEntry(Unwrap(he2)))

\* self.current after next()
IterNextCurrent(table, current) ==
    LET he == IterLinkedHeader(table, current)
    IN  IF he = None THEN None ELSE PairFromHeader(table, HeaderFromEntry(Unwrap(he)))

RECURSIVE IterCollect(_, _)
IterCollect(table, current) ==
    IF current = None
    THEN <<>>
    ELSE <<Unwrap(current)>> \o IterCollect(table, IterNextCurrent(table, current))

RECURSIVE IterPanics(_, _)
IterPanics(table, current) ==
    /\ current # None
    /\ \/ IterNextPanics(table, current)
       \/ IterPanics(table, IterNextCurrent(table, current))

\* Iterator::find: the first item of seq that matches, hit[i] telling whether
\* the i-th item matches
Find(seq, hit) ==
    LET hits == {i \in 1..Len(seq) : hit[i]}
    IN  IF hits = {} THEN None
        ELSE Some(seq[CHOOSE i \in hits : \A j \in hits : i <= j])

(***************************************************************************)
(* Chain: a handle on a chain actor and a table actor.                     *)
(***************************************************************************)
ChainIds == {1, 2}

TableIds == {1, 2}

ChainNew(chain_id, table_id) == [chain_actor |-> chain_id, table_actor |-> table_id]

test_chain == ChainNew(1, 1)

\* a second test_chain(): its own chain actor and its own table actor
other_chain == ChainNew(2, 2)

\* a clone that starts a chain actor of its own
ChainClone_new_chain_actor(chain) ==
    [chain_actor |-> CHOOSE c \in ChainIds : c # chain.chain_actor,
     table_actor |-> chain.table_actor]

\* #[derive(Clone)]: the clone holds the same two actor references
ChainClone(chain) == chain

top_pair(chain) == chain_actors[chain.chain_actor]

table(chain) == table_actors[chain.table_actor]

iter(chain) == IterCollect(table(chain), top_pair(chain))

validate(chain) == \A i \in 1..Len(iter(chain)) : PairValidate(iter(chain)[i])

\* top_pair_of_type that keeps the last match of the traversal
top_pair_of_type_oldest(chain, t) ==
    LET it == iter(chain)
        hits == {i \in 1..Len(it) : it[i].header.entry_type = t}
    IN  IF hits = {} THEN None
        ELSE Some(it[CHOOSE i \in hits : \A j \in hits : i >= j])

top_pair_of_type(chain, t) ==
    LET it == iter(chain)
    IN  Find(it, [i \in 1..Len(it) |-> it[i].header.entry_type = t])

pair(chain, pair_hash) ==
    LET it == iter(chain)
    IN  Find(it, [i \in 1..Len(it) |-> PairKey(it[i]) = pair_hash])

\* entry that does not look at the top pair
entry_skips_top(chain, entry_hash) ==
    LET it == iter(chain)
        found == Find(it, [i \in 1..Len(it) |->
                             i > 1 /\ EntryHash(it[i].entry) = entry_hash])
    IN  IF found = None THEN None ELSE Some(Unwrap(found).entry)

entry(chain, entry_hash) ==
    LET it == iter(chain)
        found == Find(it, [i \in 1..Len(it) |-> EntryHash(it[i].entry) = entry_hash])
    IN  IF found = None THEN None ELSE Some(Unwrap(found).entry)

\* maybe_pair.map(|p| p.key())
OptionPairKey(o) == IF o = None THEN None ELSE Some(PairKey(Unwrap(o)))

\* maybe_pair.map(|p| p.header().to_entry().key())
OptionHeaderKey(o) == IF o = None THEN None ELSE Some(HeaderKey(Unwrap(o).header))

\* maybe_pair.map(|p| p.header().hash())
OptionHeaderHash(o) == IF o = None THEN None ELSE Some(HeaderHash(Unwrap(o).header))

create_next_header(chain, e) ==
    HeaderNew(e.entry_type, "",
              OptionHeaderKey(top_pair(chain)),
              EntryHash(e), "",
              OptionHeaderHash(top_pair_of_type(chain, e.entry_type)))

create_next_pair(chain, e) == PairNew(create_next_header(chain, e), e)

(***************************************************************************)
(* commit_pair.  fault names the step that the table or the chain actor     *)
(* answers with an error ("none": every step succeeds).                     *)
(***************************************************************************)
Faults == {"none", "put_header_entry", "put_entry", "set_top_pair"}

ErrInvalidPair == "attempted to push an invalid pair for this chain"

ErrLinkMismatch == "top pair did not match previous hash pair from commited pair"

ErrTable == "table actor error"

ErrChainActor == "chain actor error"

CheckErrors == {ErrInvalidPair, ErrLinkMismatch}

\* commit_pair with the table written before the checks are made
commit_pair_put_before_check(chain, p, fault) ==
    LET top == top_pair(chain)
        tbl == TablePut(TablePut(table(chain), HeaderToEntry(p.header)), p.entry)
    IN  IF ~PairValidate(p)
        THEN [top |-> top, table |-> tbl, ret |-> Err(ErrInvalidPair)]
        ELSE IF OptionPairKey(top) # p.header.link
        THEN [top |-> top, table |-> tbl, ret |-> Err(ErrLinkMismatch)]
        ELSE [top |-> Some(p), table |-> tbl, ret |-> Ok(p)]

\* commit_pair without the comparison of the link with the top
commit_pair_no_link_check(chain, p, fault) ==
    LET top == top_pair(chain)
        tbl == table(chain)
    IN  IF ~PairValidate(p)
        THEN [top |-> top, table |-> tbl, ret |-> Err(ErrInvalidPair)]
        ELSE [top |-> Some(p),
              table |-> TablePut(TablePut(tbl, HeaderToEntry(p.header)), p.entry),
              ret |-> Ok(p)]

\* commit_pair that forgets to put the entry itself into the table
commit_pair_no_entry_put(chain, p, fault) ==
    LET top == top_pair(chain)
        tbl == table(chain)
    IN  IF ~PairValidate(p)
        THEN [top |-> top, table |-> tbl, ret |-> Err(ErrInvalidPair)]
        ELSE IF OptionPairKey(top) # p.header.link
        THEN [top |-> top, table |-> tbl, ret |-> Err(ErrLinkMismatch)]
        ELSE [top |-> Some(p), table |-> TablePut(tbl, HeaderToEntry(p.header)), ret |-> Ok(p)]

\* the outcome of commit_pair: the top, the table and the returned value
\* commit_pair without the check of the pair's validity
commit_pair_no_validation(chain, p, fault) ==
    LET top == top_pair(chain)
        tbl == table(chain)
        header_entry == HeaderToEntry(p.header)
    IN  IF OptionPairKey(top) # p.header.link
        THEN [top |-> top, table |-> tbl, ret |-> Err(ErrLinkMismatch)]
        ELSE [top |-> Some(p),
              table |-> TablePut(TablePut(tbl, header_entry), p.entry),
              ret |-> Ok(p)]

\* commit_pair on a chain actor that holds top and a table actor that holds tbl
commit_pair_at(top, tbl, p, fault) ==
    LET top_key == OptionPairKey(top)
        prev_pair == p.header.link
        header_entry == HeaderToEntry(p.header)
    IN  IF ~PairValidate(p)
        THEN [top |-> top, table |-> tbl, ret |-> Err(ErrInvalidPair)]
        ELSE IF top_key # prev_pair
        THEN [top |-> top, table |-> tbl, ret |-> Err(ErrLinkMismatch)]
        ELSE IF fault = "put_header_entry"
        THEN [top |-> top, table |-> tbl, ret |-> Err(ErrTable)]
        ELSE IF fault = "put_entry"
        THEN [top |-> top, table |-> TablePut(tbl, header_entry), ret |-> Err(ErrTable)]
        ELSE IF fault = "set_top_pair"
        THEN [top |-> top,
              table |-> TablePut(TablePut(tbl, header_entry), p.entry),
              ret |-> Err(ErrChainActor)]
        ELSE [top |-> Some(p),
              table |-> TablePut(TablePut(tbl, header_entry), p.entry),
              ret |-> Ok(p)]

\* a commit_pair that takes a pair linked to any pair of the chain, or to none
commit_pair_link_anywhere(chain, p, fault) ==
    LET it == iter(chain)
        linked == {i \in 1..Len(it) : Some(PairKey(it[i])) = p.header.link}
        under == IF p.header.link = None THEN None
                 ELSE IF linked # {} THEN Some(it[CHOOSE i \in linked : TRUE])
                 ELSE top_pair(chain)
    IN  commit_pair_at(under, table(chain), p, fault)

\* a commit_pair that moves the top before it writes to the table
commit_pair_top_before_put(chain, p, fault) ==
    LET r == commit_pair_at(top_pair(chain), table(chain), p, fault)
    IN  IF IsErr(r.ret) /\ r.ret[2] = ErrTable
        THEN [top |-> Some(p), table |-> r.table, ret |-> r.ret]
        ELSE r

\* a commit_pair that does not write the header entry
commit_pair_no_header_put(chain, p, fault) ==
    LET r == commit_pair_at(top_pair(chain), table(chain), p, fault)
    IN  [r EXCEPT !.table = IF HeaderToEntry(p.header) \in table(chain)
                            THEN @ ELSE @ \ {HeaderToEntry(p.header)}]

commit_pair(chain, p, fault) == commit_pair_at(top_pair(chain), table(chain), p, fault)

commit_entry(chain, e, fault) == commit_pair(chain, create_next_pair(chain, e), fault)

\* an equality of chains that compares the top pairs only
eq_tops_only(self, other) == top_pair(self) = top_pair(other)

\* PartialEq for Chain
eq(self, other) ==
    /\ validate(self)
    /\ validate(other)
    /\ top_pair(self) = top_pair(other)

(***************************************************************************)
(* The chain as JSON.                                                      *)
(***************************************************************************)
EntryFromJson(s) == [entry_type |-> s[2], content |-> s[1]]

\* {"header": {...}, "entry": {...}}
PairToJson(p) == [header |-> HeaderToJson(p.header), entry |-> EntryToJson(p.entry)]

PairFromJson(s) == PairNew(HeaderFromJson(s.header), EntryFromJson(s.entry))

Reverse(seq) == [i \in 1..Len(seq) |-> seq[Len(seq) + 1 - i]]

\* the traversal from the top, as a JSON array
to_json(chain) ==
    LET as_seq == iter(chain)
    IN  Ok(<<"json", [i \in 1..Len(as_seq) |-> PairToJson(as_seq[i])]>>)

\* the loop of from_json: commit_pair of each pair, panicking on the first
\* that is rejected
RECURSIVE Replay(_, _, _)
Replay(top, tbl, as_seq) ==
    IF as_seq = <<>>
    THEN [top |-> top, table |-> tbl, panics |-> FALSE]
    ELSE LET r == commit_pair_at(top, tbl, Head(as_seq), "none")
         IN  IF IsErr(r.ret)
             THEN [top |-> r.top, table |-> r.table, panics |-> TRUE]
             ELSE Replay(r.top, r.table, Tail(as_seq))

\* from_json that replays the pairs in the order of the array
from_json_no_reverse(tbl, s) ==
    IF s[1] # "json"
    THEN [top |-> None, table |-> tbl, panics |-> TRUE]
    ELSE Replay(None, tbl, [i \in 1..Len(s[2]) |-> PairFromJson(s[2][i])])

\* from_json on a table actor that holds tbl: the new chain actor's top and
\* the table after, or a panic
from_json(tbl, s) ==
    IF s[1] # "json"
    THEN [top |-> None, table |-> tbl, panics |-> TRUE]
    ELSE Replay(None, tbl, Reverse([i \in 1..Len(s[2]) |-> PairFromJson(s[2][i])]))

(***************************************************************************)
(* The chain's operations as steps.                                        *)
(***************************************************************************)
\* the pairs a caller of commit_pair may hand in: any entry, a link to nothing
\* or to any pair of the chain, the entry hash of any entry
CraftedPairs(chain) ==
    LET links == {None} \cup {Some(PairKey(iter(chain)[i])) : i \in 1..Len(iter(chain))}
    IN  { PairNew(HeaderNew(e.entry_type, "", link, EntryHash(x), "",
                            create_next_header(chain, e).link_same_type), e) :
            e \in Entries, link \in links, x \in Entries }

\* what a call that may commit leaves behind; a commit that succeeded has
\* moved the top pair
ApplyCommit(chain, r, op, arg) ==
    /\ chain_actors' = [chain_actors EXCEPT ![chain.chain_actor] = r.top]
    /\ table_actors' = [table_actors EXCEPT ![chain.table_actor] = r.table]
    /\ last' = <<op, arg, r.ret>>
    /\ history' = IF r.ret # None /\ IsOk(r.ret) /\ r.top # top_pair(chain)
                  THEN Append(history, <<r.ret[2], OptionPairKey(top_pair(chain))>>)
                  ELSE history

\* the chain is kept to MaxPairs pairs: a commit that would succeed on a chain
\* of that length is not explored
CanGrow(chain) == Len(iter(chain)) < MaxPairs

Explored(chain, r) == CanGrow(chain) \/ IsErr(r.ret)

CommitEntry(chain, e, fault) ==
    /\ Explored(chain, commit_entry(chain, e, fault))
    /\ ApplyCommit(chain, commit_entry(chain, e, fault), "commit_entry", e)
    /\ UNCHANGED held

CommitPair(chain, p, fault) ==
    /\ Explored(chain, commit_pair(chain, p, fault))
    /\ ApplyCommit(chain, commit_pair(chain, p, fault), "commit_pair", p)
    /\ UNCHANGED held

CreateNextPair(chain, e) ==
    /\ CanGrow(chain)
    /\ held' = Some(create_next_pair(chain, e))
    /\ last' = <<"create_next_pair", e, create_next_pair(chain, e)>>
    /\ UNCHANGED <<chain_actors, table_actors, history>>

CommitHeld(chain, fault) ==
    /\ held # None
    /\ Explored(chain, commit_pair(chain, Unwrap(held), fault))
    /\ ApplyCommit(chain, commit_pair(chain, Unwrap(held), fault), "commit_pair", Unwrap(held))
    /\ held' = None

\* the read operations of a chain and the arguments they are called with
ReadOps == {"top_pair", "top_pair_of_type", "entry", "pair", "iter", "validate", "to_json"}

ReadArgs(chain, op) ==
    CASE op = "top_pair_of_type" -> EntryTypes
      [] op = "entry" -> {EntryHash(e) : e \in Entries} \cup {EmptyKey}
      [] op = "pair" -> {PairKey(iter(chain)[i]) : i \in 1..Len(iter(chain))} \cup {EmptyKey}
      [] OTHER -> {None}

ReadResult(chain, op, arg) ==
    CASE op = "top_pair" -> top_pair(chain)
      [] op = "top_pair_of_type" -> top_pair_of_type(chain, arg)
      [] op = "entry" -> entry(chain, arg)
      [] op = "pair" -> pair(chain, arg)
      [] op = "iter" -> iter(chain)
      [] op = "validate" -> validate(chain)
      [] op = "to_json" -> to_json(chain)

\* a read in which the traversal takes the pairs off the chain
Read_iter_drains_chain(chain, op, arg) ==
    /\ last' = <<op, arg, ReadResult(chain, op, arg)>>
    /\ chain_actors' = IF op \in {"iter", "validate", "to_json"}
                       THEN [chain_actors EXCEPT ![chain.chain_actor] = None]
                       ELSE chain_actors
    /\ UNCHANGED <<table_actors, held, history>>

\* a call of one of the read operations: they take &self and only ask the
\* actors
Read(chain, op, arg) ==
    /\ last' = <<op, arg, ReadResult(chain, op, arg)>>
    /\ UNCHANGED <<chain_actors, table_actors, held, history>>

\* pairs that do not validate: the header names the hash of another entry
InvalidPairs ==
    { PairNew(HeaderNew(ex[1].entry_type, "", None, EntryHash(ex[2]), "", None), ex[1]) :
        ex \in {y \in Entries \X Entries : y[1] # y[2]} }

\* SourceChain::set_top_pair, handed a pair that was never committed
SetTopPair(chain, maybe_pair) ==
    /\ chain_actors' = [chain_actors EXCEPT ![chain.chain_actor] = maybe_pair]
    /\ last' = <<"set_top_pair", maybe_pair, Ok(maybe_pair)>>
    /\ UNCHANGED <<table_actors, held, history>>

\* Chain::from_json(table, json of chain) on a table actor that holds nothing
\* yet; restored is the chain that is built
FromJson(chain, restored) ==
    LET json == to_json(chain)[2]
        r == from_json(table(restored), json)
    IN  /\ top_pair(restored) = None
        /\ table(restored) = {}
        /\ chain_actors' = [chain_actors EXCEPT ![restored.chain_actor] = r.top]
        /\ table_actors' = [table_actors EXCEPT ![restored.table_actor] = r.table]
        /\ last' = <<"from_json", json, r.panics>>
        /\ UNCHANGED <<held, history>>

ChainInit ==
    /\ chain_actors = [c \in ChainIds |-> None]
    /\ table_actors = [t \in TableIds |-> {}]
    /\ held = None
    /\ last = <<"new", None, None>>
    /\ history = <<>>

(***************************************************************************)
(* ZomeFnCall, the DNA and the nucleus state.                              *)
(***************************************************************************)
ZomeFnCallNew(zome, capability, function, parameters) ==
    [zome_name |-> zome, cap_name |-> capability, fn_name |-> function,
     fn_args |-> parameters]

\* the two calls are the same in all four fields
same_as(a, b) ==
    /\ a.zome_name = b.zome_name
    /\ a.cap_name = b.cap_name
    /\ a.fn_name = b.fn_name
    /\ a.fn_args = b.fn_args

\* ZomeCallArgs to ZomeFnCall
from_args(args) ==
    ZomeFnCallNew(args.zome_name, args.cap_name, args.fn_name, args.fn_args)

Membranes == {"Public", "Zome", "Agent", "ApiKey"}

CapabilityNew(membrane, code) == [cap_type |-> [membrane |-> membrane], code |-> code]

\* a DNA with one zome that has one capability for every membrane
test_dna ==
    [name |-> "test_dna",
     zomes |-> [z \in {"test_zome"} |->
                  [capabilities |->
                     [c \in {"test_cap", "zome_cap", "agent_cap", "api_cap"} |->
                        CapabilityNew(CASE c = "test_cap" -> "Public"
                                        [] c = "zome_cap" -> "Zome"
                                        [] c = "agent_cap" -> "Agent"
                                        [] c = "api_cap" -> "ApiKey",
                                      "wasm")]]]]

test_zome_call == ZomeFnCallNew("test_zome", "test_cap", "test", "{}")

\* the calls asked for: the test call, and calls that differ from it in one field
ZomeFnCalls ==
    {test_zome_call,
     ZomeFnCallNew("bad_zome", "test_cap", "test", "{}"),
     ZomeFnCallNew("test_zome", "no_cap", "test", "{}"),
     ZomeFnCallNew("test_zome", "zome_cap", "test", "{}"),
     ZomeFnCallNew("test_zome", "agent_cap", "test", "{}"),
     ZomeFnCallNew("test_zome", "api_cap", "test", "{}"),
     ZomeFnCallNew("test_zome", "test_cap", "test2", "{}"),
     ZomeFnCallNew("test_zome", "test_cap", "test", "{\"a\":1}")}

ZomeNotFound(zome_name) == <<"ZomeNotFound", zome_name>>

CapabilityNotFound(cap_name) == <<"CapabilityNotFound", cap_name>>

DnaMissing == <<"DnaMissing", "">>

DoesNotHaveCapabilityToken == <<"DoesNotHaveCapabilityToken", "">>

ErrorGeneric(msg) == <<"ErrorGeneric", msg>>

\* NucleusState::get_capability: the capability the call names, or why there is none
get_capability(state, fn_call) ==
    IF state.dna = None THEN Err(DnaMissing)
    ELSE LET dna == Unwrap(state.dna)
         IN  IF fn_call.zome_name \notin DOMAIN dna.zomes
             THEN Err(ZomeNotFound(fn_call.zome_name))
             ELSE LET zome == dna.zomes[fn_call.zome_name]
                  IN  IF fn_call.cap_name \notin DOMAIN zome.capabilities
                      THEN Err(CapabilityNotFound(fn_call.cap_name))
                      ELSE Ok(zome.capabilities[fn_call.cap_name])

\* HashMap::insert
MapInsert(map, key, value) ==
    [k \in DOMAIN map \cup {key} |-> IF k = key THEN value ELSE map[k]]

\* NucleusState::zome_call_result: None while the call is absent or pending
zome_call_result(state, zome_call) ==
    IF zome_call \in DOMAIN state.zome_calls THEN state.zome_calls[zome_call] ELSE None

(***************************************************************************)
(* Actions.                                                                *)
(***************************************************************************)
ActionCall(zome_call) == <<"Call", zome_call>>

ActionReturnZomeFunctionResult(zome_call, result) ==
    <<"ReturnZomeFunctionResult", zome_call, result>>

ActionWrapperNew(action, id) == [action |-> action, id |-> id]

(***************************************************************************)
(* reduce_call: the new nucleus state, and the calls handed to the executor *)
(***************************************************************************)
\* the membrane check with the Zome membrane let through
can_call_zome_allowed(cap) == cap.cap_type.membrane \in {"Public", "Zome"}

can_call(cap) ==
    CASE cap.cap_type.membrane = "Public" -> TRUE
      [] cap.cap_type.membrane = "Zome" -> FALSE
      [] cap.cap_type.membrane = "Agent" -> FALSE
      [] cap.cap_type.membrane = "ApiKey" -> FALSE

\* reduce_call that leaves a denied call pending instead of resolving it
reduce_call_denied_stays_pending(state, action_wrapper) ==
    LET fn_call == action_wrapper.action[2]
        maybe_cap == get_capability(state, fn_call)
    IN  IF IsErr(maybe_cap)
        THEN [state |-> [state EXCEPT !.zome_calls = MapInsert(@, fn_call, Some(maybe_cap))],
              launched |-> <<>>]
        ELSE IF ~can_call(maybe_cap[2])
        THEN [state |-> [state EXCEPT !.zome_calls = MapInsert(@, fn_call, None)],
              launched |-> <<>>]
        ELSE [state |-> [state EXCEPT !.zome_calls = MapInsert(@, fn_call, None)],
              launched |-> <<[zome_call |-> fn_call, code |-> maybe_cap[2].code,
                              dna_name |-> Unwrap(state.dna).name]>>]

\* reduce_call that marks the call pending before it looks for the capability
\* and returns without a result when there is none
reduce_call_not_found_stays_pending(state, action_wrapper) ==
    LET fn_call == action_wrapper.action[2]
        maybe_cap == get_capability(state, fn_call)
    IN  IF IsErr(maybe_cap)
        THEN [state |-> [state EXCEPT !.zome_calls = MapInsert(@, fn_call, None)],
              launched |-> <<>>]
        ELSE IF ~can_call(maybe_cap[2])
        THEN [state |-> [state EXCEPT !.zome_calls =
                            MapInsert(@, fn_call, Some(Err(DoesNotHaveCapabilityToken)))],
              launched |-> <<>>]
        ELSE [state |-> [state EXCEPT !.zome_calls = MapInsert(@, fn_call, None)],
              launched |-> <<[zome_call |-> fn_call, code |-> maybe_cap[2].code,
                              dna_name |-> Unwrap(state.dna).name]>>]

reduce_call(state, action_wrapper) ==
    LET fn_call == action_wrapper.action[2]
        maybe_cap == get_capability(state, fn_call)
    IN  IF IsErr(maybe_cap)
        THEN [state |-> [state EXCEPT !.zome_calls = MapInsert(@, fn_call, Some(maybe_cap))],
              launched |-> <<>>]
        ELSE IF ~can_call(maybe_cap[2])
        THEN [state |-> [state EXCEPT !.zome_calls =
                            MapInsert(@, fn_call, Some(Err(DoesNotHaveCapabilityToken)))],
              launched |-> <<>>]
        ELSE [state |-> [state EXCEPT !.zome_calls = MapInsert(@, fn_call, None)],
              launched |-> <<[zome_call |-> fn_call, code |-> maybe_cap[2].code,
                              dna_name |-> Unwrap(state.dna).name]>>]

\* the reducer of the action that carries the executor's result
reduce_return_zome_function_result(state, action_wrapper) ==
    [state |-> [state EXCEPT !.zome_calls =
                   MapInsert(@, action_wrapper.action[2], Some(action_wrapper.action[3]))],
     launched |-> <<>>]

\* the nucleus reducer of an action
nucleus_reduce(state, action_wrapper) ==
    CASE action_wrapper.action[1] = "Call" -> reduce_call(state, action_wrapper)
      [] action_wrapper.action[1] = "ReturnZomeFunctionResult" ->
            reduce_return_zome_function_result(state, action_wrapper)
      [] OTHER -> [state |-> state, launched |-> <<>>]

(***************************************************************************)
(* invoke_call.                                                            *)
(***************************************************************************)
Callers == {1, 2}

\* runtime.zome_call: the call each runtime is executing
RuntimeZomeCall(c) ==
    IF c = 1 THEN test_zome_call ELSE ZomeFnCallNew("test_zome", "test_cap", "test2", "{}")

ZomeCallArgsFields == {"zome_name", "cap_name", "fn_name", "fn_args"}

\* serde_json::to_string(&args)
ArgsToJson(call) ==
    <<"json", [zome_name |-> call.zome_name, cap_name |-> call.cap_name,
               fn_name |-> call.fn_name, fn_args |-> call.fn_args]>>

\* argument strings that do not decode: no JSON at all, and an object without
\* fn_name and fn_args
test_bad_args == {<<"not json">>, <<"json", [zome_name |-> "test_zome", cap_name |-> "test_cap"]>>}

ArgStrings == {ArgsToJson(call) : call \in ZomeFnCalls} \cup test_bad_args

\* serde_json::from_str::<ZomeCallArgs>
serde_json_from_str(args_str) ==
    IF Len(args_str) = 2 /\ args_str[1] = "json" /\ ZomeCallArgsFields \subseteq DOMAIN args_str[2]
    THEN Ok([f \in ZomeCallArgsFields |-> args_str[2][f]])
    ELSE Err("invalid ZomeCallArgs")

I32(code) == <<"I32", code>>

\* runtime_allocate_encode_str: the string written into the runtime's memory
Allocation(str) == <<"Allocation", str>>

\* invoke_call without the guard against recursive calls
invoke_call_no_recursion_guard(runtime_zome_call, args_str) ==
    LET input == serde_json_from_str(args_str)
    IN  IF IsErr(input)
        THEN [return |-> Some(I32("ErrorJson")), zome_call |-> None]
        ELSE [return |-> None, zome_call |-> Some(from_args(input[2]))]

\* invoke_call that goes on with ZomeCallArgs::default() when decoding fails
invoke_call_default_on_decode_error(runtime_zome_call, args_str) ==
    LET input == serde_json_from_str(args_str)
        args == IF IsErr(input) THEN [f \in ZomeCallArgsFields |-> ""] ELSE input[2]
    IN  IF same_as(from_args(args), runtime_zome_call)
        THEN [return |-> Some(I32("ErrorRecursiveCall")), zome_call |-> None]
        ELSE [return |-> None, zome_call |-> Some(from_args(args))]

\* what invoke_call does before it blocks: the code it returns at once, or the
\* call it dispatches
invoke_call(runtime_zome_call, args_str) ==
    LET input == serde_json_from_str(args_str)
    IN  IF IsErr(input)
        THEN [return |-> Some(I32("ErrorJson")), zome_call |-> None]
        ELSE IF same_as(from_args(input[2]), runtime_zome_call)
        THEN [return |-> Some(I32("ErrorRecursiveCall")), zome_call |-> None]
        ELSE [return |-> None, zome_call |-> Some(from_args(input[2]))]

\* the value invoke_call returns for the result it received
invoke_call_return(action_result) ==
    IF IsOk(action_result)
    THEN Allocation(action_result[2])
    ELSE I32("ErrorActionResult")

ObserverNew(caller, zome_call) == [caller |-> caller, zome_call |-> zome_call]

\* invoke_call up to the sending of the observer
InvokeCall(c, args_str) ==
    LET r == invoke_call(RuntimeZomeCall(c), args_str)
    IN  /\ caller_pc[c] = "idle"
        /\ invokes < MaxInvokes
        /\ invokes' = invokes + 1
        /\ last_invoke' = <<c, args_str>>
        /\ IF r.return # None
           THEN /\ caller_ret' = [caller_ret EXCEPT ![c] = r.return]
                /\ UNCHANGED <<caller_pc, caller_action, observer_channel, next_id>>
           ELSE /\ caller_ret' = [caller_ret EXCEPT ![c] = None]
                /\ caller_pc' = [caller_pc EXCEPT ![c] =
                                   IF instance_pc = "running" THEN "dispatching" ELSE "panicked"]
                /\ caller_action' = [caller_action EXCEPT ![c] =
                       Some(ActionWrapperNew(ActionCall(Unwrap(r.zome_call)), next_id))]
                /\ next_id' = next_id + 1
                /\ observer_channel' =
                       IF instance_pc = "running"
                       THEN Append(observer_channel, ObserverNew(c, Unwrap(r.zome_call)))
                       ELSE observer_channel
        /\ UNCHANGED <<nucleus, action_channel, state_observers, running, instance_pc, receiver>>
        /\ UNCHANGED <<chain_vars, agent_vars, commit_vars>>

\* a dispatch that puts the action in front of those waiting
DispatchAction_jumps_queue(c) ==
    /\ caller_pc[c] = "dispatching"
    /\ IF instance_pc = "running"
       THEN /\ action_channel' = <<Unwrap(caller_action[c])>> \o action_channel
            /\ caller_pc' = [caller_pc EXCEPT ![c] = "blocked"]
       ELSE /\ caller_pc' = [caller_pc EXCEPT ![c] = "panicked"]
            /\ UNCHANGED action_channel
    /\ UNCHANGED <<nucleus, observer_channel, state_observers, running, instance_pc, next_id,
                   last_invoke, caller_action, caller_ret, receiver, invokes>>
    /\ UNCHANGED <<chain_vars, agent_vars, commit_vars>>

\* dispatch_action: the Call is sent after its observer
DispatchAction(c) ==
    /\ caller_pc[c] = "dispatching"
    /\ IF instance_pc = "running"
       THEN /\ action_channel' = Append(action_channel, Unwrap(caller_action[c]))
            /\ caller_pc' = [caller_pc EXCEPT ![c] = "blocked"]
       ELSE /\ caller_pc' = [caller_pc EXCEPT ![c] = "panicked"]
            /\ UNCHANGED action_channel
    /\ UNCHANGED <<nucleus, observer_channel, state_observers, running, instance_pc, next_id,
                   last_invoke, caller_action, caller_ret, receiver, invokes>>
    /\ UNCHANGED <<chain_vars, agent_vars, commit_vars>>

\* recv_timeout returns the value the observer sent
Receive(c) ==
    /\ caller_pc[c] = "blocked"
    /\ receiver[c] # None
    /\ caller_ret' = [caller_ret EXCEPT ![c] = Some(invoke_call_return(Unwrap(receiver[c])))]
    /\ caller_pc' = [caller_pc EXCEPT ![c] = "idle"]
    /\ caller_action' = [caller_action EXCEPT ![c] = None]
    /\ receiver' = [receiver EXCEPT ![c] = None]
    /\ UNCHANGED <<nucleus, action_channel, observer_channel, state_observers, running,
                   instance_pc, next_id, last_invoke, invokes>>
    /\ UNCHANGED <<chain_vars, agent_vars, commit_vars>>

\* recv_timeout fails: the timeout has elapsed, or the instance has gone and
\* dropped the sender.  The timeout is taken to outlast the instance's work on
\* the actions already sent to it.
RecvFails(c) ==
    /\ caller_pc[c] = "blocked"
    /\ receiver[c] = None
    /\ instance_pc = "panicked" \/ action_channel = <<>>
    /\ caller_pc' = [caller_pc EXCEPT ![c] = "panicked"]
    /\ UNCHANGED <<nucleus, action_channel, observer_channel, state_observers, running,
                   instance_pc, next_id, last_invoke, caller_action, caller_ret, receiver,
                   invokes>>
    /\ UNCHANGED <<chain_vars, agent_vars, commit_vars>>

(***************************************************************************)
(* The executor and the instance loop.                                     *)
(***************************************************************************)
ExecutorResults == {Ok("{\"ok\":true}"), Err(ErrorGeneric("function failed"))}

RemoveAt(seq, i) == [j \in 1..(Len(seq) - 1) |-> IF j < i THEN seq[j] ELSE seq[j + 1]]

\* a launched zome function call finishes and sends its result as an action
ExecutorReturns(i, result) ==
    /\ i \in 1..Len(running)
    /\ running' = RemoveAt(running, i)
    /\ IF instance_pc = "running"
       THEN /\ action_channel' = Append(action_channel,
                   ActionWrapperNew(
                       ActionReturnZomeFunctionResult(running[i].zome_call, result), next_id))
            /\ next_id' = next_id + 1
       ELSE UNCHANGED <<action_channel, next_id>>
    /\ UNCHANGED <<nucleus, observer_channel, state_observers, instance_pc, caller_pc,
                   last_invoke, caller_action, caller_ret, receiver, invokes>>
    /\ UNCHANGED <<chain_vars, agent_vars, commit_vars>>

\* the sensor of invoke_call's observer: true once the call has a result
sensor_fires(observer, state) == zome_call_result(state, observer.zome_call) # None

\* a sensor that reports not done after it has sent
sensor_done_never(observer, state) == FALSE

\* what the sensor returns: true, done, in the arm that sends, false otherwise
sensor_done(observer, state) == zome_call_result(state, observer.zome_call) # None

\* sender.send fails once the receiving runtime has gone
send_fails(observer) == caller_pc[observer.caller] = "panicked"

\* Instance::process_action: reduce the action, publish the state, take in the
\* new observers, run every observer and keep those that are not done
ProcessAction ==
    /\ instance_pc = "running"
    /\ action_channel # <<>>
    /\ LET action_wrapper == Head(action_channel)
           reduced == nucleus_reduce(nucleus, action_wrapper)
           state == reduced.state
           observers == state_observers \o observer_channel
           fired == {i \in 1..Len(observers) : sensor_fires(observers[i], state)}
           failed == {i \in fired : send_fails(observers[i])}
           \* the observers run before the first failed send, all if none fails
           ran == {i \in 1..Len(observers) : \A j \in failed : i < j}
           Kept(o) == ~sensor_done(o, state)
       IN  /\ action_channel' = Tail(action_channel)
           /\ nucleus' = state
           /\ running' = running \o reduced.launched
           /\ observer_channel' = <<>>
           /\ instance_pc' = IF failed = {} THEN "running" ELSE "panicked"
           /\ state_observers' = IF failed = {} THEN SelectSeq(observers, Kept) ELSE <<>>
           /\ receiver' = [c \in Callers |->
                  IF \E i \in fired \cap ran : observers[i].caller = c
                  THEN Some(Unwrap(zome_call_result(state,
                           observers[CHOOSE i \in fired \cap ran : observers[i].caller = c].zome_call)))
                  ELSE receiver[c]]
    /\ UNCHANGED <<next_id, caller_pc, last_invoke, caller_action, caller_ret, invokes>>
    /\ UNCHANGED <<chain_vars, agent_vars, commit_vars>>

CallInit ==
    /\ nucleus = [dna |-> Some(test_dna), zome_calls |-> <<>>]
    /\ action_channel = <<>>
    /\ observer_channel = <<>>
    /\ state_observers = <<>>
    /\ running = <<>>
    /\ instance_pc = "running"
    /\ next_id = 1
    /\ caller_pc = [c \in Callers |-> "idle"]
    /\ last_invoke = None
    /\ caller_action = [c \in Callers |-> None]
    /\ caller_ret = [c \in Callers |-> None]
    /\ receiver = [c \in Callers |-> None]
    /\ invokes = 0

CallNext ==
    \/ \E c \in Callers, a \in ArgStrings : InvokeCall(c, a)
    \/ \E c \in Callers : DispatchAction(c)
    \/ \E c \in Callers : Receive(c)
    \/ \E c \in Callers : RecvFails(c)
    \/ \E i \in 1..Len(running), r \in ExecutorResults : ExecutorReturns(i, r)
    \/ ProcessAction

(***************************************************************************)
(* The agent state and its reducers.                                       *)
(***************************************************************************)
AgentStateNew(chain) == [keys |-> None, actions |-> <<>>, chain |-> ChainClone(chain)]

\* #[derive(Clone)]: the fields are cloned, the chain by Chain's clone
AgentStateClone(state) ==
    [keys |-> state.keys, actions |-> state.actions, chain |-> ChainClone(state.chain)]

ActionCommit(e) == <<"Commit", e>>

ActionGetEntry(key) == <<"GetEntry", key>>

ActionResponseCommit(result) == <<"Commit", result>>

ActionResponseGetEntry(maybe_pair) == <<"GetEntry", maybe_pair>>

\* state.chain.entry(key) as the agent's reducers use it: the topmost pair
\* whose entry has this key, if there is one
chain_get_entry(chain, key) ==
    LET it == iter(chain)
    IN  Ok(Find(it, [i \in 1..Len(it) |-> EntryKey(it[i].entry) = key]))

\* reduce_commit that keeps only the response it stores
reduce_commit_clears_actions(state, action_wrapper, fault) ==
    LET r == commit_entry(state.chain, action_wrapper.action[2], fault)
    IN  [state |-> [state EXCEPT !.actions =
                       MapInsert(<<>>, action_wrapper, ActionResponseCommit(r.ret))],
         top |-> r.top, table |-> r.table, ret |-> r.ret, panics |-> FALSE]

\* the reducers give the new agent state and what the chain's actors hold
\* after; fault is the step of the commit that an actor answers with an error
reduce_commit(state, action_wrapper, fault) ==
    LET r == commit_entry(state.chain, action_wrapper.action[2], fault)
    IN  [state |-> [state EXCEPT !.actions =
                       MapInsert(@, action_wrapper, ActionResponseCommit(r.ret))],
         top |-> r.top, table |-> r.table, ret |-> r.ret, panics |-> FALSE]

\* reduce_get with the expect applied to the pair that was looked up
reduce_get_expects_pair(state, action_wrapper) ==
    LET result == chain_get_entry(state.chain, action_wrapper.action[2])
        panics == IsErr(result) \/ result[2] = None
    IN  [state |-> IF panics THEN state
                   ELSE [state EXCEPT !.actions =
                           MapInsert(@, action_wrapper, ActionResponseGetEntry(result[2]))],
         top |-> top_pair(state.chain), table |-> table(state.chain), ret |-> result,
         panics |-> panics]

\* result.expect(..) panics when the chain answered with an error
reduce_get(state, action_wrapper) ==
    LET result == chain_get_entry(state.chain, action_wrapper.action[2])
        panics == IsErr(result)
    IN  [state |-> IF panics THEN state
                   ELSE [state EXCEPT !.actions =
                           MapInsert(@, action_wrapper, ActionResponseGetEntry(result[2]))],
         top |-> top_pair(state.chain), table |-> table(state.chain), ret |-> result,
         panics |-> panics]

\* maps the action to its handler
resolve_reducer(action_wrapper) ==
    CASE action_wrapper.action[1] = "Commit" -> Some("reduce_commit")
      [] action_wrapper.action[1] = "GetEntry" -> Some("reduce_get")
      [] OTHER -> None

\* Arc::new: the pointer of a new allocation
ArcNew(heap) == Cardinality(DOMAIN heap) + 1

\* a reduce that changes the state behind the Arc it was given
agent_reduce_in_place(heap, old_state, action_wrapper, fault) ==
    LET handler == resolve_reducer(action_wrapper)
        r == IF handler = Some("reduce_commit")
             THEN reduce_commit(heap[old_state], action_wrapper, fault)
             ELSE reduce_get(heap[old_state], action_wrapper)
    IN  IF handler = None
        THEN [heap |-> heap, ptr |-> old_state, top |-> top_pair(heap[old_state].chain),
              table |-> table(heap[old_state].chain), ret |-> None,
              panics |-> FALSE]
        ELSE IF r.panics
        THEN [heap |-> heap, ptr |-> old_state, top |-> r.top, table |-> r.table,
              ret |-> None, panics |-> TRUE]
        ELSE [heap |-> [heap EXCEPT ![old_state] = r.state], ptr |-> old_state,
              top |-> r.top, table |-> r.table, ret |-> r.ret,
              panics |-> FALSE]

\* a reduce that clones the state whatever the action is
agent_reduce_clones_always(heap, old_state, action_wrapper, fault) ==
    LET handler == resolve_reducer(action_wrapper)
        new_state == AgentStateClone(heap[old_state])
        r == IF handler = Some("reduce_commit")
             THEN reduce_commit(new_state, action_wrapper, fault)
             ELSE reduce_get(new_state, action_wrapper)
    IN  IF handler = None
        THEN [heap |-> MapInsert(heap, ArcNew(heap), new_state), ptr |-> ArcNew(heap),
              top |-> top_pair(heap[old_state].chain),
              table |-> table(heap[old_state].chain), ret |-> None, panics |-> FALSE]
        ELSE IF r.panics
        THEN [heap |-> heap, ptr |-> old_state, top |-> r.top, table |-> r.table,
              ret |-> None, panics |-> TRUE]
        ELSE [heap |-> MapInsert(heap, ArcNew(heap), r.state), ptr |-> ArcNew(heap),
              top |-> r.top, table |-> r.table, ret |-> r.ret,
              panics |-> FALSE]

\* agent::state::reduce: the heap of snapshots and the Arc that is returned
agent_reduce(heap, old_state, action_wrapper, fault) ==
    LET handler == resolve_reducer(action_wrapper)
        new_state == AgentStateClone(heap[old_state])
        r == IF handler = Some("reduce_commit")
             THEN reduce_commit(new_state, action_wrapper, fault)
             ELSE reduce_get(new_state, action_wrapper)
    IN  IF handler = None
        THEN [heap |-> heap, ptr |-> old_state, top |-> top_pair(heap[old_state].chain),
              table |-> table(heap[old_state].chain), ret |-> None,
              panics |-> FALSE]
        ELSE IF r.panics
        THEN [heap |-> heap, ptr |-> old_state, top |-> r.top, table |-> r.table,
              ret |-> None, panics |-> TRUE]
        ELSE [heap |-> MapInsert(heap, ArcNew(heap), r.state), ptr |-> ArcNew(heap),
              top |-> r.top, table |-> r.table, ret |-> r.ret,
              panics |-> FALSE]

\* the actions handed to the agent's reduce
AgentActions ==
    {ActionCommit(e) : e \in Entries}
      \cup {ActionGetEntry(EntryKey(e)) : e \in Entries}
      \cup {ActionGetEntry(EmptyKey), ActionCall(test_zome_call),
            ActionReturnZomeFunctionResult(test_zome_call, Ok("{}"))}

AgentReduce(action, fault) ==
    LET action_wrapper == ActionWrapperNew(action, next_id)
        chain == agent_heap[agent_state].chain
        r == agent_reduce(agent_heap, agent_state, action_wrapper, fault)
    IN  /\ agent_pc = "running"
        /\ next_id <= MaxReduces
        /\ action[1] = "Commit" => Explored(chain, r)
        /\ next_id' = next_id + 1
        /\ agent_heap' = r.heap
        /\ agent_state' = r.ptr
        /\ agent_pc' = IF r.panics THEN "panicked" ELSE "running"
        /\ ApplyCommit(chain, r, "reduce", action_wrapper)
        /\ UNCHANGED <<held, nucleus, action_channel, observer_channel, state_observers,
                       running, instance_pc, caller_pc, last_invoke, caller_action,
                       caller_ret, receiver, invokes>>
        /\ UNCHANGED commit_vars

AgentInit ==
    /\ agent_heap = [p \in {1} |-> AgentStateNew(test_chain)]
    /\ agent_state = 1
    /\ agent_pc = "running"

\* only a commit talks to the actors in a way that can fail
AgentFaults(action) == IF action[1] = "Commit" THEN Faults ELSE {"none"}

AgentNext ==
    \E action \in AgentActions : \E fault \in AgentFaults(action) : AgentReduce(action, fault)

(***************************************************************************)
(* commit_entry run by threads that hold clones of one chain.  Every        *)
(* question to the chain actor or the table actor is a step of its own.     *)
(***************************************************************************)
Committers == {1, 2}

\* the clone a thread commits through
CommitterChain(c) == ChainClone(test_chain)

CommitterNew ==
    [pc |-> "idle", entry |-> None, link |-> None, pair |-> None, ret |-> None]

\* commits that have begun and not returned
InFlight == {c \in Committers : committers[c].pc # "idle"}

\* create_next_header asks for the top pair
ConcTopPair(c, e) ==
    /\ committers[c].pc = "idle"
    /\ Len(iter(CommitterChain(c))) + Cardinality(InFlight) < MaxPairs
    /\ committers' = [committers EXCEPT ![c] =
           [pc |-> "top_pair_of_type", entry |-> Some(e),
            link |-> OptionHeaderKey(top_pair(CommitterChain(c))),
            pair |-> None, ret |-> None]]
    /\ UNCHANGED chain_vars

\* create_next_header asks for the top pair of the type; create_next_pair makes
\* the pair
ConcCreateNextPair(c) ==
    LET e == Unwrap(committers[c].entry)
        header == HeaderNew(e.entry_type, "", committers[c].link, EntryHash(e), "",
                      OptionHeaderHash(top_pair_of_type(CommitterChain(c), e.entry_type)))
    IN  /\ committers[c].pc = "top_pair_of_type"
        /\ committers' = [committers EXCEPT ![c].pc = "commit_pair",
                                            ![c].pair = Some(PairNew(header, e))]
        /\ UNCHANGED chain_vars

\* commit_pair validates the pair and compares its link with the top pair
ConcCheckTop(c) ==
    LET p == Unwrap(committers[c].pair)
        r == commit_pair(CommitterChain(c), p, "put_header_entry")
    IN  /\ committers[c].pc = "commit_pair"
        /\ IF r.ret[2] \in CheckErrors
           THEN /\ committers' = [committers EXCEPT ![c] =
                                     [CommitterNew EXCEPT !.ret = Some(r.ret)]]
                /\ last' = <<"commit_entry", Unwrap(committers[c].entry), r.ret>>
           ELSE /\ committers' = [committers EXCEPT ![c].pc = "put_header_entry"]
                /\ UNCHANGED last
        /\ UNCHANGED <<chain_actors, table_actors, held, history>>

\* table_actor.put_entry(header_entry)
ConcPutHeaderEntry(c) ==
    LET chain == CommitterChain(c)
        p == Unwrap(committers[c].pair)
    IN  /\ committers[c].pc = "put_header_entry"
        /\ table_actors' = [table_actors EXCEPT ![chain.table_actor] =
                               TablePut(@, HeaderToEntry(p.header))]
        /\ committers' = [committers EXCEPT ![c].pc = "put_entry"]
        /\ UNCHANGED <<chain_actors, held, last, history>>

\* table_actor.put_entry(entry)
ConcPutEntry(c) ==
    LET chain == CommitterChain(c)
        p == Unwrap(committers[c].pair)
    IN  /\ committers[c].pc = "put_entry"
        /\ table_actors' = [table_actors EXCEPT ![chain.table_actor] = TablePut(@, p.entry)]
        /\ committers' = [committers EXCEPT ![c].pc = "set_top_pair"]
        /\ UNCHANGED <<chain_actors, held, last, history>>

\* set_top_pair(Some(pair)) and the return of Ok(pair)
ConcSetTopPair(c) ==
    LET chain == CommitterChain(c)
        p == Unwrap(committers[c].pair)
    IN  /\ committers[c].pc = "set_top_pair"
        /\ chain_actors' = [chain_actors EXCEPT ![chain.chain_actor] = Some(p)]
        /\ history' = Append(history, <<p, OptionPairKey(top_pair(chain))>>)
        /\ last' = <<"commit_entry", p.entry, Ok(p)>>
        /\ committers' = [committers EXCEPT ![c] = [CommitterNew EXCEPT !.ret = Some(Ok(p))]]
        /\ UNCHANGED <<table_actors, held>>

CommitInit == committers = [c \in Committers |-> CommitterNew]

ConcNext ==
    \/ \E c \in Committers, e \in Entries :
          ConcTopPair(c, e) /\ UNCHANGED <<call_vars, agent_vars>>
    \/ \E c \in Committers : ConcCreateNextPair(c) /\ UNCHANGED <<call_vars, agent_vars>>
    \/ \E c \in Committers : ConcCheckTop(c) /\ UNCHANGED <<call_vars, agent_vars>>
    \/ \E c \in Committers : ConcPutHeaderEntry(c) /\ UNCHANGED <<call_vars, agent_vars>>
    \/ \E c \in Committers : ConcPutEntry(c) /\ UNCHANGED <<call_vars, agent_vars>>
    \/ \E c \in Committers : ConcSetTopPair(c) /\ UNCHANGED <<call_vars, agent_vars>>

Init == ChainInit /\ CallInit /\ AgentInit /\ CommitInit

ConcSpec == Init /\ [][ConcNext]_vars

\* test_pair(): a pair made for an empty chain
test_pair(e) == PairNew(HeaderNew(e.entry_type, "", None, EntryHash(e), "", None), e)

\* the commits of one chain, with every answer the actors can give:
\* commit_entry, and commit_pair called with a pair made for an empty chain
FaultNext ==
    \/ \E e \in Entries, fault \in Faults :
          CommitEntry(test_chain, e, fault) /\ UNCHANGED <<call_vars, agent_vars, commit_vars>>
    \/ \E e \in Entries, fault \in Faults :
          CommitPair(test_chain, test_pair(e), fault)
             /\ UNCHANGED <<call_vars, agent_vars, commit_vars>>

FaultSpec == Init /\ [][FaultNext]_vars

AgentSpec == Init /\ [][AgentNext]_vars

CallSpec == Init /\ [][CallNext]_vars

Next ==
    \/ \E e \in Entries : CommitEntry(test_chain, e, "none") /\ UNCHANGED <<call_vars, agent_vars, commit_vars>>
    \/ \E p \in CraftedPairs(test_chain) :
          CommitPair(test_chain, p, "none") /\ UNCHANGED <<call_vars, agent_vars, commit_vars>>
    \/ \E e \in Entries : CreateNextPair(test_chain, e) /\ UNCHANGED <<call_vars, agent_vars, commit_vars>>
    \/ CommitHeld(test_chain, "none") /\ UNCHANGED <<call_vars, agent_vars, commit_vars>>

Spec == Init /\ [][Next]_vars

JsonNext ==
    \/ \E e \in Entries : CommitEntry(test_chain, e, "none") /\ UNCHANGED <<call_vars, agent_vars, commit_vars>>
    \/ \E e \in Entries : CreateNextPair(test_chain, e) /\ UNCHANGED <<call_vars, agent_vars, commit_vars>>
    \/ CommitHeld(test_chain, "none") /\ UNCHANGED <<call_vars, agent_vars, commit_vars>>
    \/ FromJson(test_chain, other_chain) /\ UNCHANGED <<call_vars, agent_vars, commit_vars>>

JsonSpec == Init /\ [][JsonNext]_vars

ReadNext ==
    \/ \E e \in Entries : CommitEntry(test_chain, e, "none") /\ UNCHANGED <<call_vars, agent_vars, commit_vars>>
    \/ \E e \in Entries : CreateNextPair(test_chain, e) /\ UNCHANGED <<call_vars, agent_vars, commit_vars>>
    \/ CommitHeld(test_chain, "none") /\ UNCHANGED <<call_vars, agent_vars, commit_vars>>
    \/ \E op \in ReadOps : \E arg \in ReadArgs(test_chain, op) :
          Read(test_chain, op, arg) /\ UNCHANGED <<call_vars, agent_vars, commit_vars>>

ReadSpec == Init /\ [][ReadNext]_vars

\* two chains on separate stores, the first built before the second (they
\* share nothing, so the order between them does not matter); a chain whose
\* top was set to a pair that is not in its table is not committed to again
EqNext ==
    \/ \E e \in Entries :
          /\ validate(test_chain)
          /\ top_pair(other_chain) = None
          /\ CommitEntry(test_chain, e, "none")
          /\ UNCHANGED <<call_vars, agent_vars, commit_vars>>
    \/ \E e \in Entries :
          /\ validate(other_chain)
          /\ CommitEntry(other_chain, e, "none")
          /\ UNCHANGED <<call_vars, agent_vars, commit_vars>>
    \/ \E chain \in {test_chain, other_chain} : \E p \in InvalidPairs :
          /\ validate(chain)
          /\ chain = test_chain => top_pair(other_chain) = None
          /\ SetTopPair(chain, Some(p))
          /\ UNCHANGED <<call_vars, agent_vars, commit_vars>>

EqSpec == Init /\ [][EqNext]_vars

(***************************************************************************)
(* Properties of the call bridge.                                          *)
(***************************************************************************)
\* the instance loop takes the oldest action from its channel in this step
ProcessStep == action_channel # <<>> /\ action_channel' = Tail(action_channel)

\* what the DNA says of a call, read from the DNA itself
ZomeMissing(call) == call.zome_name \notin DOMAIN test_dna.zomes

CapabilityMissing(call) ==
    /\ ~ZomeMissing(call)
    /\ call.cap_name \notin DOMAIN test_dna.zomes[call.zome_name].capabilities

MembraneOf(call) ==
    test_dna.zomes[call.zome_name].capabilities[call.cap_name].cap_type.membrane

IsPublic(call) ==
    ~ZomeMissing(call) /\ ~CapabilityMissing(call) /\ MembraneOf(call) = "Public"

IsDenied(call) ==
    ~ZomeMissing(call) /\ ~CapabilityMissing(call) /\ MembraneOf(call) # "Public"

NotFoundError(call) ==
    IF ZomeMissing(call) THEN ZomeNotFound(call.zome_name)
    ELSE CapabilityNotFound(call.cap_name)

\* the observers that process_action runs in this step
ObserversRun == state_observers \o observer_channel

\* C4: for every ZomeFnCall key the entry of the call map only moves absent ->
\* pending -> resolved: a present key never becomes absent, and a resolved entry
\* never goes back to pending nor changes its value.
C4_CallMapNeverRegresses ==
    [][ \A k \in DOMAIN nucleus.zome_calls :
          /\ k \in DOMAIN nucleus'.zome_calls
          /\ nucleus.zome_calls[k] # None => nucleus'.zome_calls[k] = nucleus.zome_calls[k] ]_vars

\* C5: the executor is handed a call only by the reduction of a Call action
\* whose capability is found and Public; that reduction marks the call pending
\* and launches it exactly once; no other reduction and no other step launches.
C5_ExecutorOnlyForPublicCapability ==
    [][ IF ProcessStep
        THEN LET action == Head(action_channel).action
             IN  IF action[1] = "Call" /\ IsPublic(action[2])
                 THEN /\ running' = Append(running, running'[Len(running')])
                      /\ running'[Len(running')].zome_call = action[2]
                      /\ action[2] \in DOMAIN nucleus'.zome_calls
                      /\ nucleus'.zome_calls[action[2]] = None
                 ELSE running' = running
        ELSE Len(running') <= Len(running) ]_vars

\* a Public call is with the executor and pending in the call map
C5_Witness ==
    \E i \in 1..Len(running) :
        /\ IsPublic(running[i].zome_call)
        /\ zome_call_result(nucleus, running[i].zome_call) = None
        /\ running[i].zome_call \in DOMAIN nucleus.zome_calls

ArgsNameCall(args_str, call) ==
    /\ args_str \notin test_bad_args
    /\ \A f \in ZomeCallArgsFields : args_str[2][f] = call[f]

\* C8: invoke_call for a call equal in zome_name, cap_name, fn_name and fn_args
\* to the call the runtime is executing returns the recursive-call code, sends
\* no observer and no action; a call that differs in a field is not rejected
\* by this guard.
C8_RecursiveCallRejected ==
    [][ (invokes' = invokes + 1 /\ last_invoke'[2] \notin test_bad_args)
        => LET c == last_invoke'[1]
           IN  IF ArgsNameCall(last_invoke'[2], RuntimeZomeCall(c))
               THEN /\ caller_ret'[c] = Some(I32("ErrorRecursiveCall"))
                    /\ caller_pc'[c] = "idle"
                    /\ UNCHANGED <<action_channel, observer_channel, state_observers>>
               ELSE /\ caller_ret'[c] # Some(I32("ErrorRecursiveCall"))
                    /\ caller_pc'[c] # "idle" ]_vars

\* a runtime has been refused its own call, while the other runtime's call,
\* which differs in one field, went through
C8_Witness ==
    \E c \in Callers :
        /\ last_invoke # None
        /\ last_invoke[1] = c
        /\ ArgsNameCall(last_invoke[2], RuntimeZomeCall(c))
        /\ caller_ret[c] = Some(I32("ErrorRecursiveCall"))
        /\ \E d \in Callers \ {c} : caller_pc[d] = "blocked"

\* C9: when the arguments do not decode into a ZomeFnCall invoke_call returns
\* the JSON-decode error code at once, and the action queue, the observers and
\* the state are unchanged.
C9_DecodeErrorChangesNothing ==
    [][ (invokes' = invokes + 1 /\ last_invoke'[2] \in test_bad_args)
        => LET c == last_invoke'[1]
           IN  /\ caller_ret'[c] = Some(I32("ErrorJson"))
               /\ caller_pc'[c] = "idle"
               /\ UNCHANGED <<action_channel, observer_channel, state_observers, nucleus,
                              running, chain_actors, table_actors>> ]_vars

\* a runtime got the JSON error code for an object that lacks two fields while
\* an action was queued
C9_Witness ==
    /\ last_invoke # None
    /\ Len(last_invoke[2]) = 2
    /\ last_invoke[2] \in test_bad_args
    /\ caller_ret[last_invoke[1]] = Some(I32("ErrorJson"))
    /\ action_channel # <<>>

(***************************************************************************)
(* Properties of the agent's reducers.                                     *)
(***************************************************************************)
\* the step reduces this kind of action
ReduceStep(kind) ==
    /\ next_id' = next_id + 1
    /\ last'[1] = "reduce"
    /\ last'[2].action[1] = kind

\* the chain read through a handle, in the given actors
IterIn(chains, tables, chain) ==
    IterCollect(tables[chain.table_actor], chains[chain.chain_actor])

\* C10 as stated: reducing a Commit or GetEntry action gives a new snapshot
\* and the previous one is untouched: its action-response map and the top
\* pair and contents of the chain read through it are the same after the
\* reduce as before it.
C10_PreviousSnapshotUntouched ==
    [][ (ReduceStep("Commit") \/ ReduceStep("GetEntry")) =>
          /\ agent_state' # agent_state
          /\ agent_state \in DOMAIN agent_heap'
          /\ agent_heap'[agent_state].actions = agent_heap[agent_state].actions
          /\ chain_actors'[agent_heap[agent_state].chain.chain_actor]
               = top_pair(agent_heap[agent_state].chain)
          /\ IterIn(chain_actors', table_actors', agent_heap[agent_state].chain)
               = iter(agent_heap[agent_state].chain) ]_vars

\* C10 amended: reducing a Commit or GetEntry action gives a new snapshot and
\* leaves the previous snapshot's own fields (keys, action-response map, chain
\* handle) as they were. The chain is shared by both snapshots: after a
\* GetEntry, or a Commit that failed, what is read through the previous
\* snapshot is unchanged; after a Commit that succeeded the previous snapshot
\* reads the committed pair as its top, ahead of its earlier contents.
C10_PreviousSnapshotKeepsFieldsSharesChain ==
    [][ (ReduceStep("Commit") \/ ReduceStep("GetEntry")) =>
          /\ agent_state' # agent_state
          /\ agent_state \in DOMAIN agent_heap'
          /\ agent_heap'[agent_state] = agent_heap[agent_state]
          /\ agent_heap'[agent_state'].chain = agent_heap[agent_state].chain
          /\ (ReduceStep("GetEntry") \/ IsErr(last'[3])) =>
               /\ chain_actors'[agent_heap[agent_state].chain.chain_actor]
                    = top_pair(agent_heap[agent_state].chain)
               /\ IterIn(chain_actors', table_actors', agent_heap[agent_state].chain)
                    = iter(agent_heap[agent_state].chain)
          /\ (ReduceStep("Commit") /\ IsOk(last'[3])) =>
               /\ chain_actors'[agent_heap[agent_state].chain.chain_actor]
                    = Some(last'[3][2])
               /\ IterIn(chain_actors', table_actors', agent_heap[agent_state].chain)
                    = <<last'[3][2]>> \o iter(agent_heap[agent_state].chain) ]_vars

\* a second Commit has been reduced: the first snapshot, whose map is still
\* empty, reads the newly committed pair as the top of a chain of two
C10_Witness ==
    /\ last[1] = "reduce"
    /\ last[2].action[1] = "Commit"
    /\ IsOk(last[3])
    /\ agent_state > 2
    /\ agent_heap[1].actions = <<>>
    /\ top_pair(agent_heap[1].chain) = Some(last[3][2])
    /\ Len(iter(agent_heap[1].chain)) = 2

\* C11: for every action that is neither Commit nor GetEntry the reduce
\* returns the very snapshot it was given: no snapshot is created, and the
\* keys, the action-response map and the chain are unchanged.
C11_OtherActionsReturnSameSnapshot ==
    [][ (/\ next_id' = next_id + 1
         /\ last'[1] = "reduce"
         /\ last'[2].action[1] \notin {"Commit", "GetEntry"})
        => (/\ agent_state' = agent_state
            /\ agent_heap' = agent_heap
            /\ chain_actors' = chain_actors
            /\ table_actors' = table_actors) ]_vars

\* a Call and a ReturnZomeFunctionResult were reduced after a commit
C11_Witness ==
    /\ last[1] = "reduce"
    /\ last[2].action[1] = "ReturnZomeFunctionResult"
    /\ next_id = 4
    /\ agent_state = 2
    /\ top_pair(agent_heap[agent_state].chain) # None
    /\ Cardinality(DOMAIN agent_heap[agent_state].actions) = 1

\* no pair of the chain has an entry with this key
NoPairHasKey(chain, key) ==
    \A i \in 1..Len(iter(chain)) : EntryKey(iter(chain)[i].entry) # key

\* C12: reducing a GetEntry for a key that no pair in the chain has records
\* GetEntry(None) under the action's wrapper and completes normally: the
\* reducer does not abort.
C12_GetEntryOfMissingKeyRecordsNone ==
    [][ (/\ ReduceStep("GetEntry")
         /\ NoPairHasKey(agent_heap[agent_state].chain, last'[2].action[2]))
        => (/\ agent_pc' = "running"
            /\ last'[2] \in DOMAIN agent_heap'[agent_state'].actions
            /\ agent_heap'[agent_state'].actions[last'[2]] = ActionResponseGetEntry(None)) ]_vars

\* the key of an entry that was not committed was looked up in a chain that
\* is not empty, and None was recorded
C12_Witness ==
    /\ last[1] = "reduce"
    /\ last[2].action[1] = "GetEntry"
    /\ last[2].action[2] # EmptyKey
    /\ agent_pc = "running"
    /\ top_pair(agent_heap[agent_state].chain) # None
    /\ NoPairHasKey(agent_heap[agent_state].chain, last[2].action[2])
    /\ agent_heap[agent_state].actions[last[2]] = ActionResponseGetEntry(None)

\* C13: every reduction of a Commit or GetEntry stores one response, under the
\* action's own wrapper, and leaves the responses under every other key as
\* they were. The response is Commit(Ok(pair)) exactly when the chain's top
\* advanced to that pair, Commit(Err) when the commit was rejected, and
\* GetEntry(Some(pair)) with the topmost pair of that key for a key committed
\* earlier.
C13_OneResponsePerAction ==
    [][ ((ReduceStep("Commit") \/ ReduceStep("GetEntry")) /\ agent_pc' = "running") =>
          /\ last'[2] \notin DOMAIN agent_heap[agent_state].actions
          /\ DOMAIN agent_heap'[agent_state'].actions
               = DOMAIN agent_heap[agent_state].actions \cup {last'[2]}
          /\ \A k \in DOMAIN agent_heap[agent_state].actions :
                agent_heap'[agent_state'].actions[k] = agent_heap[agent_state].actions[k]
          /\ ReduceStep("Commit") =>
               /\ agent_heap'[agent_state'].actions[last'[2]][1] = "Commit"
               /\ IsOk(agent_heap'[agent_state'].actions[last'[2]][2])
                    <=> /\ chain_actors' # chain_actors
                        /\ chain_actors'[agent_heap[agent_state].chain.chain_actor]
                             = Some(agent_heap'[agent_state'].actions[last'[2]][2][2])
               /\ IsErr(agent_heap'[agent_state'].actions[last'[2]][2])
                    <=> chain_actors' = chain_actors
          /\ (ReduceStep("GetEntry")
                /\ ~NoPairHasKey(agent_heap[agent_state].chain, last'[2].action[2])) =>
               /\ agent_heap'[agent_state'].actions[last'[2]][1] = "GetEntry"
               /\ agent_heap'[agent_state'].actions[last'[2]][2] # None
               /\ Unwrap(agent_heap'[agent_state'].actions[last'[2]][2])
                    \in {iter(agent_heap[agent_state].chain)[i] :
                            i \in 1..Len(iter(agent_heap[agent_state].chain))}
               /\ EntryKey(Unwrap(agent_heap'[agent_state'].actions[last'[2]][2]).entry)
                    = last'[2].action[2] ]_vars

\* three responses are stored: a Commit(Ok), a Commit(Err) and a GetEntry(Some)
C13_Witness ==
    LET actions == agent_heap[agent_state].actions
    IN  /\ Cardinality(DOMAIN actions) = 3
        /\ \E k \in DOMAIN actions : actions[k][1] = "Commit" /\ IsOk(actions[k][2])
        /\ \E k \in DOMAIN actions : actions[k][1] = "Commit" /\ IsErr(actions[k][2])
        /\ \E k \in DOMAIN actions : actions[k][1] = "GetEntry" /\ actions[k][2] # None

(***************************************************************************)
(* Properties of the chain.                                                *)
(***************************************************************************)
TopKey(chain) == OptionPairKey(top_pair(chain))

\* C1: whenever commit_pair is handed a pair that does not validate, or whose
\* header.link differs from the key of the current top pair (None for an empty
\* chain), it returns an error and leaves the top pointer and the store as they
\* were before the call.
C1_RejectedCommitChangesNothing ==
    [][ (/\ last'[1] = "commit_pair"
         /\ \/ ~PairValidate(last'[2])
            \/ last'[2].header.link # TopKey(test_chain))
        => (/\ IsErr(last'[3])
            /\ last'[3][2] \in CheckErrors
            /\ chain_actors' = chain_actors
            /\ table_actors' = table_actors) ]_vars

\* a fork (a valid pair linked to a pair that is no longer the top) was rejected
C1_Witness ==
    /\ last[1] = "commit_pair"
    /\ last[3] = Err(ErrLinkMismatch)
    /\ PairValidate(last[2])
    /\ last[2].header.link # None
    /\ Len(history) >= 2

\* C2: in every reachable state the chain is a single backward-linked line: the
\* pairs reachable from the top are the committed pairs, the genesis pair has
\* link None and every other pair links to the key of the pair that was the top
\* immediately before it was committed.
C2_SingleBackwardLinkedLine ==
    LET it == iter(test_chain)
        n == Len(it)
    IN  /\ n = Len(history)
        /\ \A j \in 1..n :
              /\ it[j] = history[n + 1 - j][1]
              /\ it[j].header.link = history[n + 1 - j][2]
              /\ it[j].header.link = IF j = n THEN None ELSE Some(PairKey(it[j + 1]))

\* three pairs in the chain, and the last call was a rejected commit_pair
C2_Witness ==
    /\ Len(iter(test_chain)) = 3
    /\ last[1] = "commit_pair"
    /\ IsErr(last[3])

\* C3: after a successful commit_entry(e) the top pair is the returned pair and
\* its entry is e; the entry of every commit stays retrievable by its key, so
\* after e1 then e2 on an empty chain the top entry is e2 and entry(e1.key),
\* entry(e2.key) return e1 and e2.
C3_CommitEntryBecomesTop ==
    /\ (last[1] = "commit_entry" /\ IsOk(last[3])) =>
          /\ top_pair(test_chain) = Some(last[3][2])
          /\ last[3][2].entry = last[2]
          /\ entry(test_chain, EntryKey(last[2])) = Some(last[2])
    /\ \A i \in 1..Len(history) :
          entry(test_chain, EntryKey(history[i][1].entry)) = Some(history[i][1].entry)

\* e1 then e2 (another entry) were committed on the empty chain by commit_entry
C3_Witness ==
    /\ last[1] = "commit_entry"
    /\ IsOk(last[3])
    /\ Len(history) = 2
    /\ history[1][1].entry # history[2][1].entry
    /\ history[2][1].entry = last[2]

\* the places in the traversal of the pairs whose entry has this hash
PlacesOfEntryHash(chain, h) ==
    {i \in 1..Len(iter(chain)) : EntryHash(iter(chain)[i].entry) = h}

\* C14: entry(h) is the entry of the topmost pair whose entry hash is h, and
\* None when no pair has that entry hash ("" included); the pairs of the chain
\* have distinct keys, also when they hold the same entry, and pair(key)
\* returns each of them.
C14_EntryTopmostPairUnique ==
    LET it == iter(test_chain)
    IN  /\ \A h \in {EntryHash(e) : e \in Entries} \cup {EmptyKey} :
              entry(test_chain, h) =
                 IF PlacesOfEntryHash(test_chain, h) = {}
                 THEN None
                 ELSE Some(it[CHOOSE i \in PlacesOfEntryHash(test_chain, h) :
                                 \A j \in PlacesOfEntryHash(test_chain, h) : i <= j].entry)
        /\ \A i, j \in 1..Len(it) : i # j => PairKey(it[i]) # PairKey(it[j])
        /\ \A i \in 1..Len(it) : pair(test_chain, PairKey(it[i])) = Some(it[i])

\* the same entry was committed twice with another entry in between
C14_Witness ==
    /\ Len(history) = 3
    /\ history[1][1].entry = history[3][1].entry
    /\ history[2][1].entry # history[1][1].entry
    /\ pair(test_chain, PairKey(history[1][1])) = Some(history[1][1])
    /\ entry(test_chain, EntryHash(history[1][1].entry)) = Some(history[3][1].entry)

\* the commits of pairs of this type, by their place in the order of commits
CommitsOfType(t) == {i \in 1..Len(history) : history[i][1].header.entry_type = t}

\* the first pair of a traversal whose header has this entry type
FirstOfType(it, t) == Find(it, [i \in 1..Len(it) |-> it[i].header.entry_type = t])

\* C15: top_pair_of_type(t) is the most recently committed pair whose header
\* has entry type t, None when there is none, and a commit of a pair of
\* another type does not change it.
C15_TopPairOfTypeIsNewestOfType ==
    /\ [](\A t \in EntryTypes :
            top_pair_of_type(test_chain, t) =
               IF CommitsOfType(t) = {} THEN None
               ELSE Some(history[CHOOSE i \in CommitsOfType(t) :
                                    \A j \in CommitsOfType(t) : i >= j][1]))
    /\ [][ \A t \in EntryTypes :
             (/\ Len(history') = Len(history) + 1
              /\ history'[Len(history')][1].header.entry_type # t)
             => FirstOfType(IterIn(chain_actors', table_actors', test_chain), t)
                  = top_pair_of_type(test_chain, t) ]_vars

\* a pair of type a lies under two pairs of type b and is still the top of
\* its type
C15_Witness ==
    /\ Len(history) = 3
    /\ history[1][1].header.entry_type = test_type_a
    /\ history[2][1].header.entry_type = test_type_b
    /\ history[3][1].header.entry_type = test_type_b
    /\ top_pair_of_type(test_chain, test_type_a) = Some(history[1][1])
    /\ top_pair(test_chain) = Some(history[3][1])

\* the Chain handles there are: the chain the agent state was built from and
\* the clone in every snapshot
ChainClones == {test_chain} \cup {agent_heap[p].chain : p \in DOMAIN agent_heap}

\* C16: all clones of a chain see the same chain state: after a commit made
\* through one clone, top_pair() of every clone is the committed pair.
C16_ClonesShareChainState ==
    /\ \A c1, c2 \in ChainClones : top_pair(c1) = top_pair(c2) /\ iter(c1) = iter(c2)
    /\ (last[1] = "reduce" /\ last[2].action[1] = "Commit" /\ IsOk(last[3])) =>
          \A c \in ChainClones : top_pair(c) = Some(last[3][2])

\* a second commit was made through the clone of the third snapshot; the
\* chain the first snapshot was cloned from has it as its top
C16_Witness ==
    /\ last[1] = "reduce"
    /\ last[2].action[1] = "Commit"
    /\ IsOk(last[3])
    /\ agent_state = 3
    /\ Len(iter(test_chain)) = 2
    /\ top_pair(test_chain) = Some(last[3][2])

\* C17: for every chain built by commits, to_json gives the pairs newest
\* first, and from_json of it on an empty store replays them without a
\* rejection and gives a chain equal to the original: same top pair, same
\* traversal.
C17_JsonRoundTrip ==
    (last[1] = "from_json") =>
        /\ Len(last[2][2]) = Len(history)
        /\ \A i \in 1..Len(history) :
              last[2][2][i] = PairToJson(history[Len(history) + 1 - i][1])
        /\ ~last[3]
        /\ top_pair(other_chain) = top_pair(test_chain)
        /\ iter(other_chain) = iter(test_chain)
        /\ eq(other_chain, test_chain)

\* a chain of three pairs, the first and the third with the same entry, was
\* restored from its JSON
C17_Witness ==
    /\ last[1] = "from_json"
    /\ Len(history) = 3
    /\ history[1][1].entry = history[3][1].entry
    /\ history[2][1].entry # history[1][1].entry
    /\ Len(iter(other_chain)) = 3

\* the entries of a chain, newest first
EntriesOf(chain) == [i \in 1..Len(iter(chain)) |-> iter(chain)[i].entry]

\* C18: two chains are equal exactly when both validate and their top pairs
\* are equal: chains on separate stores that were committed the same sequence
\* of entries are equal (two empty chains included), chains whose histories
\* differ are not, and a chain that fails validation equals no chain, itself
\* included.
C18_ChainEquality ==
    \A a, b \in {test_chain, other_chain} :
        /\ eq(a, b) <=> (validate(a) /\ validate(b) /\ top_pair(a) = top_pair(b))
        /\ (validate(a) /\ validate(b)) => (eq(a, b) <=> EntriesOf(a) = EntriesOf(b))
        /\ ~validate(a) => (~eq(a, a) /\ ~eq(a, b) /\ ~eq(b, a))

\* the two chains were committed the same three entries and are equal
C18_Witness ==
    /\ Len(iter(test_chain)) = 3
    /\ EntriesOf(test_chain) = EntriesOf(other_chain)
    /\ table(test_chain) = table(other_chain)
    /\ eq(test_chain, other_chain)

\* C19: the read operations change neither the top pointer nor the store, and
\* a read repeated with no commit in between gives the same result: what a
\* read returned is what the same read returns in the state it left behind.
C19_ReadsChangeNothing ==
    /\ [][ last'[1] \in ReadOps =>
             /\ chain_actors' = chain_actors
             /\ table_actors' = table_actors
             /\ (last[1] = last'[1] /\ last[2] = last'[2]) => last'[3] = last[3] ]_vars
    /\ [](last[1] \in ReadOps => last[3] = ReadResult(test_chain, last[1], last[2]))

\* the traversal of a chain of three pairs was read
C19_Witness ==
    /\ last[1] = "iter"
    /\ Len(last[3]) = 3
    /\ iter(test_chain) = last[3]
    /\ top_pair(test_chain) = Some(last[3][1])

\* C20: validate() holds in every reachable state of a chain, the empty chain
\* included: after any sequence of commit_entry and commit_pair calls every
\* pair of the traversal has header.entry_hash = hash(entry).
C20_ChainAlwaysValidates ==
    /\ validate(test_chain)
    /\ \A i \in 1..Len(iter(test_chain)) :
          iter(test_chain)[i].header.entry_hash = EntryHash(iter(test_chain)[i].entry)

\* a pair that does not validate but links to the top was handed to
\* commit_pair on a chain of two pairs
C20_Witness ==
    /\ last[1] = "commit_pair"
    /\ ~PairValidate(last[2])
    /\ last[2].header.link = TopKey(test_chain)
    /\ Len(iter(test_chain)) = 2
    /\ last[3] = Err(ErrInvalidPair)

\* C21: iter() yields the successfully committed pairs, each once, newest
\* first down to genesis, and ends; a successful commit puts its pair in front
\* of the sequence and leaves the pairs behind it as they were, and nothing
\* else changes the sequence.
C21_IterIsCommitsNewestFirst ==
    /\ [](/\ ~IterPanics(table(test_chain), top_pair(test_chain))
          /\ iter(test_chain) = Reverse([i \in 1..Len(history) |-> history[i][1]])
          /\ \A i, j \in 1..Len(iter(test_chain)) :
                i # j => iter(test_chain)[i] # iter(test_chain)[j])
    /\ [][ IterIn(chain_actors', table_actors', test_chain) =
             IF history' # history
             THEN <<history'[Len(history')][1]>> \o iter(test_chain)
             ELSE iter(test_chain) ]_vars

\* a third pair was committed by commit_pair and is the first of the sequence
C21_Witness ==
    /\ last[1] = "commit_pair"
    /\ IsOk(last[3])
    /\ Len(iter(test_chain)) = 3
    /\ iter(test_chain)[1] = last[3][2]
    /\ iter(test_chain)[3].header.link = None

\* what invoke_call hands back to the wasm caller: the allocation of a result
\* or one of the error codes
DocumentedReturns ==
    {Allocation(r[2]) : r \in {x \in ExecutorResults : IsOk(x)}}
      \cup {I32(code) : code \in {"ErrorJson", "ErrorRecursiveCall", "ErrorActionResult"}}

\* C22: every invoke_call ends in a documented outcome, a result, an error
\* code or a timeout failure handed to the caller, also when the call stays
\* pending because the executor never reports: no runtime is ever taken down
\* by its invoke_call, and what was returned is a result or an error code.
C22_InvokeCallEndsInDocumentedOutcome ==
    \A c \in Callers :
        /\ caller_pc[c] # "panicked"
        /\ caller_ret[c] # None => Unwrap(caller_ret[c]) \in DocumentedReturns

\* the observers of a runtime among those the instance holds or is about to
\* take in
ObserversOf(c) == {i \in 1..Len(ObserversRun) : ObserversRun[i].caller = c}

C24_ReducedInOrderObserversSeePublished ==
    /\ [][ IF ProcessStep
           THEN nucleus' = nucleus_reduce(nucleus, Head(action_channel)).state
           ELSE /\ nucleus' = nucleus
                /\ Len(action_channel') >= Len(action_channel)
                /\ SubSeq(action_channel', 1, Len(action_channel)) = action_channel ]_vars
    /\ [][ \A c \in Callers :
             (receiver[c] = None /\ receiver'[c] # None) =>
                /\ ProcessStep
                /\ \E i \in ObserversOf(c) :
                      zome_call_result(nucleus', ObserversRun[i].zome_call) = receiver'[c] ]_vars

\* the first runtime was sent its result while the Call of the second, sent
\* later, is still in the queue
C24_Witness ==
    /\ receiver[1] # None
    /\ IsOk(Unwrap(receiver[1]))
    /\ receiver[2] = None
    /\ caller_pc[2] = "blocked"
    /\ Len(action_channel) = 1
    /\ action_channel[1] = Unwrap(caller_action[2])
    /\ Unwrap(caller_action[2]).action[2] \notin DOMAIN nucleus.zome_calls

\* the dispatcher thread takes the next action when there is one, the executor
\* finishes what it was handed, and a runtime that has sent its observer sends
\* its action and takes the value its channel holds
CallFairness ==
    /\ WF_vars(ProcessAction)
    /\ WF_vars(\E i \in 1..Len(running), r \in ExecutorResults : ExecutorReturns(i, r))
    /\ \A c \in Callers : WF_vars(DispatchAction(c)) /\ WF_vars(Receive(c))

CallLiveSpec == CallSpec /\ CallFairness

\* the call is marked pending and no executor is at work on it any more
ExecutorCompleted(k) ==
    /\ k \in DOMAIN nucleus.zome_calls
    /\ nucleus.zome_calls[k] = None
    /\ \A i \in 1..Len(running) : running[i].zome_call # k

\* C25: with the dispatcher and the executor scheduled fairly, a call that was
\* marked pending and whose executor has completed is eventually resolved, and
\* a runtime blocked on a call is eventually sent its result unless it has
\* stopped waiting.
C25_CompletedCallEventuallyResolved ==
    /\ \A k \in ZomeFnCalls :
          ExecutorCompleted(k) ~> (zome_call_result(nucleus, k) # None)
    /\ \A c \in Callers :
          (caller_pc[c] = "blocked" /\ ExecutorCompleted(Unwrap(caller_action[c]).action[2]))
             ~> (receiver[c] # None \/ caller_pc[c] # "blocked")

(***************************************************************************)
(* The JSON of an action's response.                                       *)
(***************************************************************************)
JsonString(object) == <<"json", object>>

\* the string ""
EmptyString == <<"">>

\* HolochainError::to_json
ErrorToJson(err) == JsonString([error |-> err])

\* a response that names the committed pair by the key of its header
ActionResponseToJson_pair_key(response) ==
    IF response[1] = "Commit"
    THEN IF IsOk(response[2])
         THEN JsonString([hash |-> PairKey(response[2][2])])
         ELSE ErrorToJson(response[2][2])
    ELSE IF response[2] # None
         THEN JsonString(PairToJson(Unwrap(response[2])))
         ELSE EmptyString

\* ToJson for ActionResponse
ActionResponseToJson(response) ==
    IF response[1] = "Commit"
    THEN IF IsOk(response[2])
         THEN JsonString([hash |-> EntryKey(response[2][2].entry)])
         ELSE ErrorToJson(response[2][2])
    ELSE IF response[2] # None
         THEN JsonString(PairToJson(Unwrap(response[2])))
         ELSE EmptyString

\* the responses the current agent state holds
Responses == agent_heap[agent_state].actions

\* the responses' JSON as documented, but for the hash of a Commit, which is
\* the committed pair's key when of_pair and the committed entry's otherwise
ResponsesToJson(of_pair) ==
    \A aw \in DOMAIN Responses :
        LET response == Responses[aw]
            json == ActionResponseToJson(response)
        IN  /\ (response[1] = "Commit" /\ IsOk(response[2])) =>
                 /\ response[2][2].entry = aw.action[2]
                 /\ json = JsonString([hash |-> IF of_pair THEN PairKey(response[2][2])
                                                ELSE EntryKey(aw.action[2])])
            /\ (response[1] = "Commit" /\ IsErr(response[2])) =>
                 /\ json[1] = "json"
                 /\ DOMAIN json[2] = {"error"}
                 /\ json[2].error = response[2][2]
            /\ (response[1] = "GetEntry" /\ response[2] # None) =>
                 /\ json[1] = "json"
                 /\ DOMAIN json[2] = {"header", "entry"}
                 /\ PairFromJson(json[2]) = Unwrap(response[2])
                 /\ EntryKey(Unwrap(response[2]).entry) = aw.action[2]
            /\ (response[1] = "GetEntry" /\ response[2] = None) => json = EmptyString

\* C26 as stated: the "hash" of a successful Commit's response is the hash of
\* the committed pair's header, the pair's identity; a failed Commit gives an
\* error object, a GetEntry the full pair when found and "" when not.
C26_CommitResponseCarriesPairHash == ResponsesToJson(TRUE)

\* C26: the "hash" of a successful Commit's response is the key of the
\* committed entry, the one a GetEntry finds the pair by; a failed Commit gives
\* an error object, a GetEntry the full pair when found and "" when not.
C26_CommitResponseCarriesEntryKey ==
    /\ ResponsesToJson(FALSE)
    /\ \A aw \in DOMAIN Responses :
          (Responses[aw][1] = "Commit" /\ IsOk(Responses[aw][2])) =>
             LET found == chain_get_entry(agent_heap[agent_state].chain,
                              ActionResponseToJson(Responses[aw])[2].hash)
             IN  /\ IsOk(found)
                 /\ found[2] # None
                 /\ Unwrap(found[2]).entry = aw.action[2]

\* the state holds the response of a commit that succeeded, of one that
\* failed, and of a GetEntry that found the committed pair
C26_Witness ==
    /\ \E aw \in DOMAIN Responses : Responses[aw][1] = "Commit" /\ IsOk(Responses[aw][2])
    /\ \E aw \in DOMAIN Responses : Responses[aw][1] = "Commit" /\ IsErr(Responses[aw][2])
    /\ \E aw \in DOMAIN Responses : Responses[aw][1] = "GetEntry" /\ Responses[aw][2] # None

\* the pairs reached from the top of the shared chain by following link
Reachable == {iter(test_chain)[i] : i \in 1..Len(iter(test_chain))}

\* C27: with clones that run commit_entry at the same time, every commit that
\* returned Ok leaves its pair reachable from the top, and the link of a pair
\* reachable from the top is the key of the pair that was the top when it was
\* committed.
C27_ConcurrentCommitsKeepOneLine ==
    /\ \A i \in 1..Len(history) : history[i][1] \in Reachable
    /\ \A i \in 1..Len(history) :
          history[i][1] \in Reachable => history[i][1].header.link = history[i][2]

\* commit_pair is called with the pair that create_next_pair made earlier
CommitHeldStep ==
    /\ held # None
    /\ held' = None
    /\ last'[1] = "commit_pair"
    /\ last'[2] = Unwrap(held)

\* a commit moves the top of the chain
CommitSucceeds == chain_actors'[test_chain.chain_actor] # top_pair(test_chain)

\* the held pair was computed from the top the chain has now
HeldIsCurrent == Unwrap(held).header.link = OptionPairKey(top_pair(test_chain))

\* C28: the pair of create_next_pair is linked to the top it was computed
\* from; it stays acceptable while no commit succeeds and is stale for good
\* once one has; commit_pair takes it when it is current and otherwise answers
\* with the link mismatch and changes nothing; and the pair made anew for the
\* same entry is one that commit_pair takes.
C28_HeldPairValidOnlyForItsTop ==
    /\ [][ (held' # None /\ held' # held) =>
              /\ Unwrap(held').header.link = OptionPairKey(top_pair(test_chain))
              /\ UNCHANGED <<chain_actors, table_actors>> ]_vars
    /\ [][ (held # None /\ held' = held) =>
              IF CommitSucceeds THEN ~HeldIsCurrent' ELSE HeldIsCurrent' = HeldIsCurrent ]_vars
    /\ [][ CommitHeldStep =>
              IF HeldIsCurrent
              THEN /\ last'[3] = Ok(Unwrap(held))
                   /\ chain_actors'[test_chain.chain_actor] = held
              ELSE /\ last'[3] = Err(ErrLinkMismatch)
                   /\ UNCHANGED <<chain_actors, table_actors>>
                   /\ \A e \in Entries :
                         IsOk(commit_pair(test_chain, create_next_pair(test_chain, e), "none").ret)
         ]_vars

\* the pair made before another commit has just been rejected for its link,
\* and the chain has the pair of that other commit on top
C28_Witness ==
    /\ held = None
    /\ last[1] = "commit_pair"
    /\ last[3] = Err(ErrLinkMismatch)
    /\ top_pair(test_chain) # None
    /\ last[2].header.link = Unwrap(top_pair(test_chain)).header.link
    /\ \E e \in Entries : last[2] = PairNew(HeaderNew(e.entry_type, "", last[2].header.link,
                                               EntryHash(e), "", last[2].header.link_same_type), e)

\* commit_entry has returned Ok
CommitEntryOkStep ==
    /\ last'[1] = "commit_entry"
    /\ IsOk(last'[3])
    /\ history' # history

\* C29 as stated: the link_same_type of a pair committed by commit_entry names
\* the newest pair of its type that the chain held before the commit, by the
\* key that link uses for that pair, and is None exactly when there is none.
C29_LinkSameTypeIsKeyOfNewestOfType ==
    [][ CommitEntryOkStep =>
          LET p == last'[3][2]
              newest == FirstOfType(iter(test_chain), p.entry.entry_type)
          IN  /\ (p.header.link_same_type = None) <=> (newest = None)
              /\ p.header.link_same_type = OptionPairKey(newest) ]_vars

(***************************************************************************)
(* The traversal of one type: the iterator's next() with link_same_type in  *)
(* the place of link.                                                       *)
(***************************************************************************)
\* the header entry asked from the table for the link_same_type of current
SameTypeLinkedHeader(tbl, current) ==
    IF current = None \/ Unwrap(current).header.link_same_type = None
    THEN None
    ELSE TableEntry(tbl, Unwrap(Unwrap(current).header.link_same_type))

\* the table has nothing under the link_same_type of current
SameTypeNextPanics(tbl, current) ==
    /\ current # None
    /\ Unwrap(current).header.link_same_type # None
    /\ SameTypeLinkedHeader(tbl, current) = None

SameTypeNextCurrent(tbl, current) ==
    LET he == SameTypeLinkedHeader(tbl, current)
    IN  IF he = None THEN None ELSE PairFromHeader(tbl, HeaderFromEntry(Unwrap(he)))

\* the pairs handed out before the traversal ends or panics
RECURSIVE SameTypeCollect(_, _)
SameTypeCollect(tbl, current) ==
    IF current = None
    THEN <<>>
    ELSE <<Unwrap(current)>> \o SameTypeCollect(tbl, SameTypeNextCurrent(tbl, current))

RECURSIVE SameTypePanics(_, _)
SameTypePanics(tbl, current) ==
    /\ current # None
    /\ \/ SameTypeNextPanics(tbl, current)
       \/ SameTypePanics(tbl, SameTypeNextCurrent(tbl, current))

\* iter().filter(|p| p.entry().entry_type() == t)
IterOfType(chain, t) ==
    LET Is(p) == p.entry.entry_type = t
    IN  SelectSeq(iter(chain), Is)

\* C30: for every entry type, the pairs reached from top_pair_of_type by
\* following link_same_type are the pairs of that type met on the traversal
\* of the whole chain by link, in the same order.
C30_SameTypeTraversalEqualsFilteredIter ==
    \A t \in EntryTypes :
        /\ ~SameTypePanics(table(test_chain), top_pair_of_type(test_chain, t))
        /\ SameTypeCollect(table(test_chain), top_pair_of_type(test_chain, t))
              = IterOfType(test_chain, t)

\* commit_pair or commit_entry has returned
CommitReturns == last'[1] \in {"commit_entry", "commit_pair"}

\* C31: commit_pair returns Ok only with the pair's header entry and entry in
\* the table and the pair on top; when it returns Err, also when a put or
\* set_top_pair fails after an earlier step went through, the top is the one
\* before the call and commit_entry of any entry succeeds on the chain as it
\* is left.
C31_CommitIsOkOnlyWhenComplete ==
    /\ [][ CommitReturns =>
             IF IsOk(last'[3])
             THEN /\ HeaderToEntry(last'[3][2].header) \in table_actors'[test_chain.table_actor]
                  /\ last'[3][2].entry \in table_actors'[test_chain.table_actor]
                  /\ chain_actors'[test_chain.chain_actor] = Some(last'[3][2])
             ELSE chain_actors'[test_chain.chain_actor] = top_pair(test_chain) ]_vars
    /\ [](\A e \in Entries :
            LET r == commit_entry(test_chain, e, "none")
            IN  /\ IsOk(r.ret)
                /\ r.top = Some(r.ret[2])
                /\ r.ret[2].entry = e)

\* set_top_pair has just failed on a chain that holds a pair: the entries of
\* the refused pair are in the table and the top is the pair from before
C31_Witness ==
    /\ last[1] = "commit_entry"
    /\ last[3] = Err(ErrChainActor)
    /\ top_pair(test_chain) # None
    /\ last[2] \in table(test_chain)
    /\ last[2] # Unwrap(top_pair(test_chain)).entry
    /\ \E e \in table(test_chain) :
          /\ e.entry_type = "header"
          /\ HeaderFromEntry(e).link = Some(PairKey(Unwrap(top_pair(test_chain))))

\* C32: in every state, after failed and partly failed commits too, the table
\* holds the header entry and the entry of every pair reached from the top by
\* link, each under its key, and the traversal never asks the table for a
\* linked header that is not there.
C32_ReachablePairsAreInTheTable ==
    /\ ~IterPanics(table(test_chain), top_pair(test_chain))
    /\ \A p \in Reachable :
          /\ TableEntry(table(test_chain), PairKey(p)) = Some(HeaderToEntry(p.header))
          /\ TableEntry(table(test_chain), EntryKey(p.entry)) = Some(p.entry)
          /\ p.header.link # None =>
                \E q \in Reachable : Some(PairKey(q)) = p.header.link

\* two pairs are in the chain, the last commit failed at set_top_pair, and the
\* table holds the header entry of the pair that did not become the top
C32_Witness ==
    /\ Len(iter(test_chain)) >= 2
    /\ last[3] = Err(ErrChainActor)
    /\ \E e \in table(test_chain) :
          /\ e.entry_type = "header"
          /\ \A p \in Reachable : HeaderToEntry(p.header) # e

\* the Call action of the runtime has been sent and reduced
OwnCallReduced(c) ==
    /\ caller_pc[c] = "blocked"
    /\ \A i \in 1..Len(action_channel') : action_channel'[i] # Unwrap(caller_action[c])

\* C33: the value sent to a runtime blocked in invoke_call is the result of
\* that runtime's own Call action: its observer fires only once its own Call
\* has been reduced, and the value is the result the call map then holds for
\* it, never the result that an earlier, equal ZomeFnCall left in the map.
C33_CallerReceivesResultOfOwnCall ==
    [][ \A c \in Callers :
          (receiver[c] = None /\ receiver'[c] # None) =>
             /\ OwnCallReduced(c)
             /\ receiver'[c] = zome_call_result(nucleus', Unwrap(caller_action[c]).action[2]) ]_vars

\* C34: after each reduced action the observers are run in the order of their
\* registration, and an observer leaves the list only because its predicate
\* returned true: those whose predicate is not satisfied by the new state are
\* all registered after the action, in the same order, whether or not their
\* runtime still waits; no other step takes an observer off the list.
C34_ObserversLeaveOnlyWhenDone ==
    [][ IF ProcessStep
        THEN LET Unsatisfied(o) == ~sensor_fires(o, nucleus')
             IN  state_observers' = SelectSeq(ObserversRun, Unsatisfied)
        ELSE state_observers' = state_observers ]_vars

====
